---- MODULE Spec2Model ----
(***************************************************************************)
(* Model of the MAX31855 MicroPython driver (src/max31855.py).             *)
(*                                                                         *)
(* Representation of Python values:                                        *)
(*   None            [t |-> "None"]                                        *)
(*   True / False    [t |-> "bool", b |-> TRUE / FALSE]                    *)
(*   int (0..2^32-1) [t |-> "int", hi |-> upper 16 bits, lo |-> lower 16]  *)
(*   float           [t |-> "float", e4 |-> value in units of 0.0001]      *)
(*   str             [t |-> "str", s |-> the text]                         *)
(* A 32-bit integer is kept as two 16-bit halves because 0x80000000 and    *)
(* above do not fit the checker's integers.  The temperatures the driver   *)
(* produces are multiples of 0.0625, so a float is exact in units of 1e-4. *)
(***************************************************************************)
EXTENDS Integers, Sequences, FiniteSets, TLC

(* ---------------- bounds of the model ---------------- *)

\* bytes 0..MaxLowByte may appear in every position of a frame
MaxLowByte == 7

\* further byte values: 0x80 (top bit only), 0xFD, 0xFF
HighBytes == {128, 253, 255}

ByteVals == (0..MaxLowByte) \cup HighBytes

\* what spi.readinto may leave in the 4-byte buffer
Frames == [1..4 -> ByteVals]

(* ---------------- Python values ---------------- *)

None == [t |-> "None"]

PyBool(b) == [t |-> "bool", b |-> b]

PyInt(hi, lo) == [t |-> "int", hi |-> hi, lo |-> lo]

PyFloat(e4) == [t |-> "float", e4 |-> e4]

PyStr(s) == [t |-> "str", s |-> s]

\* truth value of an object in a condition (if x / if not x)
Truthy(v) ==
    CASE v.t = "None"  -> FALSE
      [] v.t = "bool"  -> v.b
      [] v.t = "int"   -> (v.hi # 0 \/ v.lo # 0)
      [] v.t = "float" -> v.e4 # 0
      [] v.t = "str"   -> v.s # ""
      [] v.t = "list"  -> v.items # <<>>

Pow2(n) == 2^n

RECURSIVE And16(_, _, _)
\* bitwise AND of two n-bit numbers
And16(a, b, n) ==
    IF n = 0 THEN 0
    ELSE (a % 2) * (b % 2) + 2 * And16(a \div 2, b \div 2, n - 1)

\* x & y on 32-bit integers
BitAnd(x, y) == PyInt(And16(x.hi, y.hi, 16), And16(x.lo, y.lo, 16))

\* x >> n on a 32-bit integer, 0 <= n < 32
Shr(x, n) ==
    IF n >= 16
    THEN PyInt(0, x.hi \div Pow2(n - 16))
    ELSE PyInt(x.hi \div Pow2(n),
               (x.lo \div Pow2(n)) + (x.hi % Pow2(n)) * Pow2(16 - n))

\* an integer literal below 2^31 as a Python int
Lit(n) == PyInt(n \div 65536, n % 65536)

\* the number held by a Python int below 2^31
Num(x) == x.hi * 65536 + x.lo

(* ---------------- class constants ---------------- *)

FAULT_OPEN == 1

FAULT_GND == 2

FAULT_VCC == 4

FAULT_GENERIC == 65536

\* 0x80000000, the thermocouple sign bit
TC_SIGN == PyInt(32768, 0)

\* 0x8000, the internal-temperature sign bit
INT_SIGN == 32768

\* 0x3FFF
TC_MASK == 16383

\* 0x4000
TC_MOD == 16384

\* 0x7FF
INT_MASK == 2047

\* 0x800
INT_MOD == 2048

\* 0.25 in units of 1e-4
TC_LSB_E4 == 2500

\* 0.0625 in units of 1e-4
INT_LSB_E4 == 625

ERR_DISCONNECTED == "No SPI response (disconnected)"

ERR_ALL_HIGH == "SPI bus error (all high)"

(* ---------------- read_raw: classification of the buffer ---------------- *)

\* variant: the bytes taken least significant first ("<I")
Unpack_little_endian(d) == PyInt(d[4] * 256 + d[3], d[2] * 256 + d[1])

\* struct.unpack(">I", data)[0]
Unpack(d) == PyInt(d[1] * 256 + d[2], d[3] * 256 + d[4])

\* variant: only the all-zero buffer is recognised as a failure
read_raw_result_zero_only(d) ==
    IF d = <<0, 0, 0, 0>> THEN <<None, PyStr(ERR_DISCONNECTED)>>
    ELSE <<Unpack(d), None>>

\* lines 29-35 of read_raw: the pair (value, error) computed from the buffer
read_raw_result(d) ==
    IF d = <<0, 0, 0, 0>> THEN <<None, PyStr(ERR_DISCONNECTED)>>
    ELSE IF d = <<255, 255, 255, 255>> THEN <<None, PyStr(ERR_ALL_HIGH)>>
    ELSE <<Unpack(d), None>>

(* ---------------- get_fault_string ---------------- *)

RECURSIVE Join(_, _)
\* sep.join(items)
Join(sep, items) ==
    IF items = <<>> THEN ""
    ELSE IF Len(items) = 1 THEN items[1]
    ELSE items[1] \o sep \o Join(sep, Tail(items))

\* variant: an elif chain, the first matching cause wins
fault_list_first_only(raw) ==
    IF Truthy(BitAnd(raw, Lit(FAULT_OPEN))) THEN <<"Open Circuit">>
    ELSE IF Truthy(BitAnd(raw, Lit(FAULT_GND))) THEN <<"Short to GND">>
    ELSE IF Truthy(BitAnd(raw, Lit(FAULT_VCC))) THEN <<"Short to VCC">>
    ELSE <<>>

\* the list built by lines 39-46
fault_list(raw) ==
    (IF Truthy(BitAnd(raw, Lit(FAULT_OPEN))) THEN <<"Open Circuit">> ELSE <<>>)
    \o (IF Truthy(BitAnd(raw, Lit(FAULT_GND))) THEN <<"Short to GND">> ELSE <<>>)
    \o (IF Truthy(BitAnd(raw, Lit(FAULT_VCC))) THEN <<"Short to VCC">> ELSE <<>>)

\* variant: the generic flag is tested before the specific-cause bits
get_fault_string_generic_first(raw) ==
    LET faults == fault_list(raw) IN
    IF ~Truthy(BitAnd(raw, Lit(FAULT_GENERIC))) THEN None
    ELSE IF Truthy([t |-> "list", items |-> faults])
         THEN PyStr(Join(" + ", faults))
    ELSE PyStr("Unknown Fault")

\* lines 39-52
get_fault_string(raw) ==
    LET faults == fault_list(raw) IN
    IF Truthy([t |-> "list", items |-> faults]) THEN PyStr(Join(" + ", faults))
    ELSE IF Truthy(BitAnd(raw, Lit(FAULT_GENERIC))) THEN PyStr("Unknown Fault")
    ELSE None

(* ---------------- read_all ---------------- *)

\* variant: the fault text is taken without testing the generic flag
decode_fault_ungated(raw_value) == get_fault_string(raw_value)

\* lines 78-80: the fault entry of a connected reading
decode_fault(raw_value) ==
    IF Truthy(BitAnd(raw_value, Lit(FAULT_GENERIC)))
    THEN get_fault_string(raw_value)
    ELSE None

\* variant: the sign bit is not applied
decode_tc_unsigned(raw_value) ==
    PyFloat(Num(BitAnd(Shr(raw_value, 18), Lit(TC_MASK))) * TC_LSB_E4)

\* lines 85-88: the thermocouple temperature
decode_tc(raw_value) ==
    LET tc_field == Num(BitAnd(Shr(raw_value, 18), Lit(TC_MASK)))
        tc_raw   == IF Truthy(BitAnd(raw_value, TC_SIGN))
                    THEN tc_field - TC_MOD
                    ELSE tc_field
    IN PyFloat(tc_raw * TC_LSB_E4)

\* variant: the field is masked with 0xFFF, sign bit included
decode_internal_wide_mask(raw_value) ==
    LET in_field     == Num(BitAnd(Shr(raw_value, 4), Lit(2 * INT_MASK + 1)))
        internal_raw == IF Truthy(BitAnd(raw_value, Lit(INT_SIGN)))
                        THEN in_field - INT_MOD
                        ELSE in_field
    IN PyFloat(internal_raw * INT_LSB_E4)

\* lines 91-94: the internal temperature
decode_internal(raw_value) ==
    LET in_field     == Num(BitAnd(Shr(raw_value, 4), Lit(INT_MASK)))
        internal_raw == IF Truthy(BitAnd(raw_value, Lit(INT_SIGN)))
                        THEN in_field - INT_MOD
                        ELSE in_field
    IN PyFloat(internal_raw * INT_LSB_E4)

\* lines 64-96: the dict built from what read_raw returned
read_all(d) ==
    LET rr        == read_raw_result(d)
        raw_value == rr[1]
        error     == rr[2]
        connected == raw_value # None
        fault     == decode_fault(raw_value)
    IN
    IF ~connected
    THEN [tc_temp |-> None, internal_temp |-> None, fault |-> error,
          raw |-> raw_value, connected |-> PyBool(FALSE)]
    ELSE [tc_temp |-> IF ~Truthy(fault) THEN decode_tc(raw_value) ELSE None,
          internal_temp |-> decode_internal(raw_value),
          fault |-> fault,
          raw |-> raw_value,
          connected |-> PyBool(TRUE)]

(* ---------------- legacy accessors ---------------- *)

\* variant: a temperature that is falsy (0.0) is reported as None
read_temp_c_falsy(d) ==
    LET data == read_all(d) IN
    IF ~Truthy(data.connected) THEN PyBool(FALSE)
    ELSE IF Truthy(data.fault) \/ ~Truthy(data.tc_temp) THEN None
    ELSE data.tc_temp

\* lines 103-112: the value read_temp_c returns
read_temp_c(d) ==
    LET data == read_all(d) IN
    IF ~Truthy(data.connected) THEN PyBool(FALSE)
    ELSE IF Truthy(data.fault) THEN None
    ELSE data.tc_temp

\* line 109: what read_temp_c prints
read_temp_c_print(d) ==
    LET data == read_all(d) IN
    IF Truthy(data.connected) /\ Truthy(data.fault)
    THEN <<PyStr("MAX31855 Fault: " \o data.fault.s)>>
    ELSE <<>>

\* lines 118-124: the value read_internal returns
read_internal(d) ==
    LET data == read_all(d) IN
    IF ~Truthy(data.connected) THEN PyBool(FALSE)
    ELSE data.internal_temp

\* line 119: read_internal prints the dict
read_internal_print(d) == <<read_all(d)>>

(* ---------------- diagnose ---------------- *)

HEX == <<"0", "1", "2", "3", "4", "5", "6", "7",
         "8", "9", "A", "B", "C", "D", "E", "F">>

\* a 16-bit number as four upper-case hexadecimal digits
Hex4(w) ==
    HEX[(w \div 4096) + 1] \o HEX[((w \div 256) % 16) + 1]
    \o HEX[((w \div 16) % 16) + 1] \o HEX[(w % 16) + 1]

\* f"{x:08X}" of a 32-bit integer
FmtHex8(x) == Hex4(x.hi) \o Hex4(x.lo)

RECURSIVE DecStr(_)
\* str(n) of a natural number
DecStr(n) ==
    IF n < 10 THEN HEX[n + 1] ELSE DecStr(n \div 10) \o HEX[(n % 10) + 1]

\* f"{x:.2f}" of a float: the exact value rounded to hundredths, ties to even
Fmt2f(x) ==
    LET a   == IF x.e4 < 0 THEN -x.e4 ELSE x.e4
        q   == a \div 100
        r   == a % 100
        h   == IF r > 50 \/ (r = 50 /\ q % 2 = 1) THEN q + 1 ELSE q
        frc == h % 100
    IN (IF x.e4 < 0 THEN "-" ELSE "")
       \o DecStr(h \div 100) \o "."
       \o HEX[(frc \div 10) + 1] \o HEX[(frc % 10) + 1]

\* f"{b}" of a bool
FmtBool(v) == IF v.b THEN "True" ELSE "False"

\* the unit suffix of lines 139 and 141, as the literal stands in the source
DEG_C == "째C"

\* lines 131-147: the text diagnose returns
diagnose(d) ==
    LET data == read_all(d)
        head == <<"Connected: " \o FmtBool(data.connected)>>
        body ==
            IF Truthy(data.connected)
            THEN <<"Raw value: 0x" \o FmtHex8(data.raw)>>
                 \o (IF data.tc_temp # None
                     THEN <<"TC Temp: " \o Fmt2f(data.tc_temp) \o DEG_C>>
                     ELSE <<>>)
                 \o (IF data.internal_temp # None
                     THEN <<"Internal: " \o Fmt2f(data.internal_temp) \o DEG_C>>
                     ELSE <<>>)
                 \o (IF Truthy(data.fault)
                     THEN <<"FAULT: " \o data.fault.s>>
                     ELSE <<>>)
            ELSE <<"Error: " \o data.fault.s>>
    IN PyStr(Join("\n", head \o body))

(* ---------------- the driver as a state machine ---------------- *)

VARIABLES
    pc,       \* position of the caller: "idle", "L23", "L26", "L27", "L30", "done"
    op,       \* the public method being executed
    cs,       \* level of the chip-select pin
    data,     \* the 4-byte buffer of read_raw
    events,   \* pin and bus events of the current call, in order
    arg,      \* the argument of get_fault_string
    ret,      \* the value the finished call returned
    printed   \* what the finished call printed

vars == <<pc, op, cs, data, events, arg, ret, printed>>

\* the methods that go through read_raw
BusOps == {"read_raw", "read_all", "read_temp_c", "read_internal", "diagnose"}

\* variant: the constructor leaves chip-select asserted
Init_cs_low ==
    /\ pc = "idle"
    /\ op = "none"
    /\ cs = 0
    /\ data = <<0, 0, 0, 0>>
    /\ events = <<>>
    /\ arg = None
    /\ ret = None
    /\ printed = <<>>

\* __init__: chip-select is driven high
Init ==
    /\ pc = "idle"
    /\ op = "none"
    /\ cs = 1
    /\ data = <<0, 0, 0, 0>>
    /\ events = <<>>
    /\ arg = None
    /\ ret = None
    /\ printed = <<>>

\* a caller invokes one of the methods that read the bus; every one of them
\* reaches line 23 of read_raw before anything else happens
Call ==
    /\ pc = "idle"
    /\ \E o \in BusOps : op' = o
    /\ pc' = "L23"
    /\ UNCHANGED <<cs, data, events, arg, ret, printed>>

\* line 23: self.cs.value(0)
CsAssert ==
    /\ pc = "L23"
    /\ cs' = 0
    /\ events' = Append(events, "cs_low")
    /\ pc' = "L26"
    /\ UNCHANGED <<op, data, arg, ret, printed>>

\* lines 24-26: settle delay, fresh buffer, self.spi.readinto(data)
Transfer ==
    /\ pc = "L26"
    /\ \E f \in Frames : data' = f
    /\ events' = Append(events, "xfer")
    /\ pc' = "L27"
    /\ UNCHANGED <<op, cs, arg, ret, printed>>

\* variant: a failed frame is read once more
CsRelease_retry ==
    /\ pc = "L27"
    /\ cs' = 1
    /\ events' = Append(events, "cs_high")
    /\ pc' = IF (data = <<0, 0, 0, 0>> \/ data = <<255, 255, 255, 255>>)
                 /\ Len(events) < 3
              THEN "L23" ELSE "L30"
    /\ UNCHANGED <<op, data, arg, ret, printed>>

\* line 27: self.cs.value(1)
CsRelease ==
    /\ pc = "L27"
    /\ cs' = 1
    /\ events' = Append(events, "cs_high")
    /\ pc' = "L30"
    /\ UNCHANGED <<op, data, arg, ret, printed>>

\* lines 29-35 and the rest of the calling method: no further bus access
Return ==
    /\ pc = "L30"
    /\ ret' = CASE op = "read_raw"      -> read_raw_result(data)
                [] op = "read_all"      -> read_all(data)
                [] op = "read_temp_c"   -> read_temp_c(data)
                [] op = "read_internal" -> read_internal(data)
                [] op = "diagnose"      -> diagnose(data)
    /\ printed' = CASE op = "read_temp_c"   -> read_temp_c_print(data)
                    [] op = "read_internal" -> read_internal_print(data)
                    [] OTHER                -> <<>>
    /\ pc' = "done"
    /\ UNCHANGED <<op, cs, data, events, arg>>

\* get_fault_string(raw_value): no bus access
GetFaultString ==
    /\ pc = "idle"
    /\ \E f \in Frames : arg' = Unpack(f)
    /\ op' = "get_fault_string"
    /\ ret' = get_fault_string(arg')
    /\ pc' = "done"
    /\ UNCHANGED <<cs, data, events, printed>>

\* the caller takes the result; the locals of the finished call are gone
Resume ==
    /\ pc = "done"
    /\ pc' = "idle"
    /\ op' = "none"
    /\ data' = <<0, 0, 0, 0>>
    /\ events' = <<>>
    /\ arg' = None
    /\ ret' = None
    /\ printed' = <<>>
    /\ UNCHANGED cs

Next ==
    \/ Call
    \/ CsAssert
    \/ Transfer
    \/ CsRelease
    \/ Return
    \/ GetFaultString
    \/ Resume

Spec == Init /\ [][Next]_vars

(* ---------------- vocabulary of the properties ---------------- *)

\* bit i (0 = least significant) of the frame, first byte most significant
FrameBit(d, i) == (d[4 - (i \div 8)] \div Pow2(i % 8)) % 2

\* bit i of a 32-bit Python int
IntBit(x, i) ==
    IF i >= 16 THEN (x.hi \div Pow2(i - 16)) % 2 ELSE (x.lo \div Pow2(i)) % 2

AllZero(d) == \A i \in 0..31 : FrameBit(d, i) = 0

AllOnes(d) == \A i \in 0..31 : FrameBit(d, i) = 1

TransportFailed(d) == AllZero(d) \/ AllOnes(d)

\* the text expected for the specific-cause bits b0, b1, b2
ExpectedFault(b0, b1, b2) ==
    CASE <<b0, b1, b2>> = <<0, 0, 0>> -> "Unknown Fault"
      [] <<b0, b1, b2>> = <<1, 0, 0>> -> "Open Circuit"
      [] <<b0, b1, b2>> = <<0, 1, 0>> -> "Short to GND"
      [] <<b0, b1, b2>> = <<1, 1, 0>> -> "Open Circuit + Short to GND"
      [] <<b0, b1, b2>> = <<0, 0, 1>> -> "Short to VCC"
      [] <<b0, b1, b2>> = <<1, 0, 1>> -> "Open Circuit + Short to VCC"
      [] <<b0, b1, b2>> = <<0, 1, 1>> -> "Short to GND + Short to VCC"
      [] <<b0, b1, b2>> = <<1, 1, 1>> ->
             "Open Circuit + Short to GND + Short to VCC"

\* bits 31-18 of the frame as a 14-bit two's-complement number
Signed14(d) ==
    LET u == d[1] * 64 + (d[2] \div 4)
    IN IF u >= 8192 THEN u - 16384 ELSE u

\* bits 15-4 of the frame as a 12-bit two's-complement number
Signed12(d) ==
    LET u == d[3] * 16 + (d[4] \div 16)
    IN IF u >= 2048 THEN u - 4096 ELSE u

\* the 11-bit field at bits 14-4 of the frame
Field11(d) == ((d[3] % 128) * 16) + (d[4] \div 16)

Finished(o) == pc = "done" /\ op = o

(* ---------------- C1 ---------------- *)

\* C1: read_raw returns (None, message) if and only if the frame is
\* 0x00000000 or 0xFFFFFFFF; for every other frame it returns (v, None)
\* where v is the 32-bit big-endian reading of the four bytes, bit for bit.
C1_ReadRawContract ==
    Finished("read_raw") =>
        /\ (ret[1] = None) <=> TransportFailed(data)
        /\ TransportFailed(data) => (ret[2].t = "str" /\ ret[2].s # "")
        /\ ~TransportFailed(data) =>
              /\ ret[2] = None
              /\ ret[1].t = "int"
              /\ ret[1].hi \in 0..65535
              /\ ret[1].lo \in 0..65535
              /\ \A i \in 0..31 : IntBit(ret[1], i) = FrameBit(data, i)

C1_Witness ==
    /\ Finished("read_raw")
    /\ data = <<253, 128, 0, 1>>
    /\ ret = <<PyInt(64896, 1), None>>

(* ---------------- C2 ---------------- *)

\* C2 as stated: for every frame with bit 16 clear, the result of read_all
\* has no fault and a thermocouple temperature.
C2_Original ==
    (Finished("read_all") /\ FrameBit(data, 16) = 0)
        => (ret.fault = None /\ ret.tc_temp.t = "float")

\* C2 as amended: for every connected frame (any frame but 0x00000000 and
\* 0xFFFFFFFF) with bit 16 clear, read_all reports no fault and a
\* thermocouple temperature, whatever bits 0-2 are.
C2_NoGenericNoFault ==
    (Finished("read_all") /\ ~TransportFailed(data) /\ FrameBit(data, 16) = 0)
        => (ret.fault = None /\ ret.tc_temp.t = "float")

C2_Witness ==
    /\ Finished("read_all")
    /\ FrameBit(data, 16) = 0
    /\ FrameBit(data, 0) = 1
    /\ FrameBit(data, 2) = 1
    /\ ret.fault = None
    /\ ret.tc_temp.t = "float"

(* ---------------- C3 ---------------- *)

\* C3 as stated: get_fault_string(raw) returns None for every raw whose
\* bit 16 is clear, regardless of bits 0-2.
C3_Original ==
    (Finished("get_fault_string") /\ IntBit(arg, 16) = 0) => ret = None

\* C3 as amended: get_fault_string(raw) returns None exactly when bits 0-2
\* and bit 16 are all clear; when one of bits 0-2 is set it returns the names
\* of the set bits whether or not bit 16 is set, and 'Unknown Fault' when
\* only bit 16 is set.
C3_Amended ==
    Finished("get_fault_string") =>
        LET b0 == IntBit(arg, 0)
            b1 == IntBit(arg, 1)
            b2 == IntBit(arg, 2)
        IN /\ (ret = None) <=> (b0 + b1 + b2 = 0 /\ IntBit(arg, 16) = 0)
           /\ (b0 + b1 + b2 > 0 \/ IntBit(arg, 16) = 1)
                 => ret = PyStr(ExpectedFault(b0, b1, b2))

C3_Witness ==
    /\ Finished("get_fault_string")
    /\ IntBit(arg, 16) = 0
    /\ IntBit(arg, 0) = 1
    /\ IntBit(arg, 1) = 0
    /\ IntBit(arg, 2) = 0
    /\ ret = PyStr("Open Circuit")

(* ---------------- C4 ---------------- *)

\* C4: for every connected frame with bit 16 set, the fault of read_all is
\* the names of the set bits among 0-2 in bit order, or 'Unknown Fault' when
\* none of them is set, and the thermocouple temperature is absent.
C4_FaultNames ==
    (Finished("read_all") /\ ~TransportFailed(data) /\ FrameBit(data, 16) = 1)
        => /\ ret.fault = PyStr(ExpectedFault(FrameBit(data, 0),
                                              FrameBit(data, 1),
                                              FrameBit(data, 2)))
           /\ ret.tc_temp = None

C4_Witness ==
    /\ Finished("read_all")
    /\ ~TransportFailed(data)
    /\ FrameBit(data, 16) = 1
    /\ FrameBit(data, 0) = 0
    /\ FrameBit(data, 1) = 1
    /\ FrameBit(data, 2) = 1
    /\ ret.fault = PyStr("Short to GND + Short to VCC")
    /\ ret.tc_temp = None

(* ---------------- C5 ---------------- *)

\* C5: on the all-zero and the all-ones frame read_all returns connected =
\* False, raw and both temperatures absent, and the transport message of
\* read_raw as fault; connected = False occurs for no other frame.
C5_TransportFailure ==
    Finished("read_all") =>
        /\ AllZero(data) =>
              ret = [tc_temp |-> None, internal_temp |-> None, raw |-> None,
                     connected |-> PyBool(FALSE),
                     fault |-> PyStr("No SPI response (disconnected)")]
        /\ AllOnes(data) =>
              ret = [tc_temp |-> None, internal_temp |-> None, raw |-> None,
                     connected |-> PyBool(FALSE),
                     fault |-> PyStr("SPI bus error (all high)")]
        /\ ret.connected = PyBool(FALSE) => TransportFailed(data)
        /\ ret.connected \in {PyBool(FALSE), PyBool(TRUE)}

C5_Witness ==
    /\ Finished("read_all")
    /\ AllOnes(data)
    /\ ret.connected = PyBool(FALSE)
    /\ ret.fault = PyStr("SPI bus error (all high)")

(* ---------------- C6 ---------------- *)

\* C6: for every connected frame without fault the thermocouple temperature
\* in quarter degrees is bits 31-18 read as a 14-bit two's-complement number;
\* the frame 0xFD800000 gives -40.0 with internal temperature 0.0, no fault.
C6_Thermocouple ==
    (Finished("read_all") /\ ~TransportFailed(data) /\ ret.fault = None)
        => /\ ret.tc_temp.t = "float"
           /\ ret.tc_temp.e4 = 2500 * Signed14(data)
           /\ Signed14(data) \in -8192..8191
           /\ data = <<253, 128, 0, 0>> =>
                 /\ ret.tc_temp = PyFloat(-400000)
                 /\ ret.internal_temp = PyFloat(0)

C6_Witness ==
    /\ Finished("read_all")
    /\ data = <<253, 128, 0, 0>>
    /\ ret.fault = None
    /\ ret.tc_temp = PyFloat(-400000)

(* ---------------- C7 ---------------- *)

\* C7: for every connected frame, fault or not, the internal temperature is
\* present and in sixteenths of a degree equals the 11-bit field at bits 4-14
\* minus 0x800 when bit 15 is set, the field otherwise: bits 15-4 read as a
\* 12-bit two's-complement number.
C7_Internal ==
    (Finished("read_all") /\ ~TransportFailed(data)) =>
        /\ ret.internal_temp.t = "float"
        /\ ret.internal_temp.e4 =
              625 * (Field11(data) - (IF FrameBit(data, 15) = 1 THEN 2048 ELSE 0))
        /\ ret.internal_temp.e4 = 625 * Signed12(data)
        /\ Signed12(data) \in -2048..2047

C7_Witness ==
    /\ Finished("read_all")
    /\ FrameBit(data, 16) = 1
    /\ FrameBit(data, 15) = 1
    /\ ~TransportFailed(data)
    /\ ret.fault # None
    /\ ret.internal_temp.e4 < 0

(* ---------------- C8 ---------------- *)

OneTransaction == <<"cs_low", "xfer", "cs_high">>

\* C8: every call of read_raw, read_all, read_temp_c, read_internal and
\* diagnose produces exactly chip-select low, one transfer, chip-select high,
\* in that order, with no retry whatever the frame.
C8_OneTransaction ==
    /\ \E n \in 0..3 : events = SubSeq(OneTransaction, 1, n)
    /\ (pc \in {"L30", "done"} /\ op \in BusOps) => events = OneTransaction

C8_Witness ==
    /\ Finished("diagnose")
    /\ AllZero(data)
    /\ events = OneTransaction

(* ---------------- C9 ---------------- *)

\* C9: read_temp_c returns False exactly when the transport failed, None
\* exactly when the sensor is connected and bit 16 is set, and otherwise the
\* thermocouple temperature as a number, 0.0 included.
C9_ReadTempC ==
    Finished("read_temp_c") =>
        /\ (ret = PyBool(FALSE)) <=> TransportFailed(data)
        /\ (ret = None) <=> (~TransportFailed(data) /\ FrameBit(data, 16) = 1)
        /\ (~TransportFailed(data) /\ FrameBit(data, 16) = 0) =>
              ret = PyFloat(2500 * Signed14(data))

C9_Witness ==
    /\ Finished("read_temp_c")
    /\ ~TransportFailed(data)
    /\ ret = PyFloat(0)

(* ---------------- C10 ---------------- *)

\* C10: chip-select is high after construction and after every completed
\* call; it is low only inside read_raw between the assert and the release,
\* and the transfer runs only while it is low.
C10_ChipSelect ==
    /\ cs \in {0, 1}
    /\ (cs = 0) <=> (pc \in {"L26", "L27"})
    /\ (cs = 0) <=> (events \in {<<"cs_low">>, <<"cs_low", "xfer">>})
    /\ ENABLED Transfer => cs = 0

C10_Witness ==
    /\ Finished("read_internal")
    /\ cs = 1
    /\ events = OneTransaction

====
